---- MODULE Spec2Model ----
(***************************************************************************)
(* The faceted catalog query engine of the DFIR Artifact Explorer          *)
(* (components/ArtifactExplorer.tsx): the record collection, the session   *)
(* filter state, the derived facet universes and result list, and the      *)
(* handlers that change the state.                                         *)
(*                                                                         *)
(* Text that the code searches or sorts (name, summary, description,       *)
(* paths, event-id groups, tactic tags, tool names, the query) is a        *)
(* sequence of UTF-16 code units, so that trim, toLowerCase, includes and  *)
(* sort are modelled by what they do.  Text that is only compared for      *)
(* equality (id, slug, platform) is a TLA+ string.  An optional field that *)
(* is unset is a field the record does not have.                           *)
(***************************************************************************)
EXTENDS Integers, Sequences, FiniteSets, TLC

VARIABLES seed, query, platforms, tactics, tools, selected

vars == <<seed, query, platforms, tactics, tools, selected>>

(***************************************************************************)
(* Bounds                                                                  *)
(***************************************************************************)
\* the longest record collection a behaviour starts from
MaxRecords == 2

(***************************************************************************)
(* JavaScript built-ins used by the component                              *)
(***************************************************************************)
\* String.prototype.toLowerCase on the code units the model uses (A-Z)
toLowerCase(s) == [i \in 1..Len(s) |-> IF s[i] \in 65..90 THEN s[i] + 32 ELSE s[i]]

\* white space removed by String.prototype.trim (tab, LF, VT, FF, CR, space)
WhiteSpace == {9, 10, 11, 12, 13, 32}

\* String.prototype.trim
trim(s) ==
    LET keep == {i \in 1..Len(s) : s[i] \notin WhiteSpace}
    IN  IF keep = {} THEN <<>>
        ELSE LET lo == CHOOSE i \in keep : \A j \in keep : i <= j
                 hi == CHOOSE i \in keep : \A j \in keep : j <= i
             IN  SubSeq(s, lo, hi)

\* String.prototype.includes: q occurs in s as a contiguous run
strIncludes(s, q) == \E i \in 0..(Len(s) - Len(q)) : SubSeq(s, i + 1, i + Len(q)) = q

\* Array.prototype.includes
arrIncludes(arr, x) == \E i \in 1..Len(arr) : arr[i] = x

\* the order of the default Array.prototype.sort: by code units, a proper prefix first
RECURSIVE strLess(_, _)
strLess(s, t) ==
    IF t = <<>> THEN FALSE
    ELSE IF s = <<>> THEN TRUE
    ELSE IF Head(s) # Head(t) THEN Head(s) < Head(t)
    ELSE strLess(Tail(s), Tail(t))

RECURSIVE insertSorted(_, _)
insertSorted(arr, x) ==
    IF arr = <<>> THEN <<x>>
    ELSE IF strLess(x, Head(arr)) THEN <<x>> \o arr
    ELSE <<Head(arr)>> \o insertSorted(Tail(arr), x)

\* identity: what a mutant of sort leaves behind
sort_none(arr) == arr

\* Array.prototype.sort with no comparator
RECURSIVE sort(_)
sort(arr) == IF arr = <<>> THEN <<>> ELSE insertSorted(sort(SubSeq(arr, 1, Len(arr) - 1)), arr[Len(arr)])

\* an optional field: a.f ?? dflt
orElse(a, f, dflt) == IF f \in DOMAIN a THEN a[f] ELSE dflt

(***************************************************************************)
(* Helpers of the component                                                *)
(***************************************************************************)
\* uniq: Array.from(new Set(arr)) keeps the first occurrence of each value
RECURSIVE uniq(_)
uniq(arr) ==
    IF arr = <<>> THEN <<>>
    ELSE LET init == uniq(SubSeq(arr, 1, Len(arr) - 1))
             x == arr[Len(arr)]
         IN  IF arrIncludes(init, x) THEN init ELSE Append(init, x)

\* the platform buttons, and the default of the platforms state
PlatformButtons == <<"windows", "linux", "m365", "gws">>

\* the Platform type
Platform == {"windows", "linux", "m365", "gws"}

(***************************************************************************)
(* Record collections                                                      *)
(***************************************************************************)
\* "Registry hive": windows, found by path C:\SAM, parsed by rr
R1 == [id |-> "r1", name |-> <<82, 101, 103>>, slug |-> "reg", platform |-> "windows",
       tactic_tags |-> << <<112, 101>> >>,
       summary |-> <<104, 105, 118, 101>>,
       locations |-> << [path |-> <<67, 58, 92, 83, 65, 77>>] >>,
       parsers |-> << [tool_name |-> <<114, 114>>] >>]

\* "Auth log": linux, found by path /auth, no parser, with a description "Ssh"
R2 == [id |-> "r2", name |-> <<65, 117, 116, 104>>, slug |-> "auth", platform |-> "linux",
       tactic_tags |-> << <<101, 120>> >>,
       summary |-> <<108, 111, 103>>,
       description |-> <<83, 115, 104>>,
       locations |-> << [path |-> <<47, 97, 117, 116, 104>>] >>]

\* "Logon": windows, event ids 4624 and 4625 of source Sec, parsed by rr and Evt
R3 == [id |-> "r3", name |-> <<76, 111, 103, 111, 110>>, slug |-> "logon", platform |-> "windows",
       tactic_tags |-> << <<112, 101>>, <<101, 120>> >>,
       summary |-> <<101, 118, 116>>,
       parsers |-> << [tool_name |-> <<114, 114>>], [tool_name |-> <<69, 118, 116>>] >>,
       event_ids |-> << [ids |-> << <<52, 54, 50, 52>>, <<52, 54, 50, 53>> >>,
                         source |-> <<83, 101, 99>>,
                         description |-> <<76, 111, 103, 111, 110>>] >>]

\* "Mbx": m365, event id MailRd of source UAL, no tactic tag, no parser
R4 == [id |-> "r4", name |-> <<77, 98, 120>>, slug |-> "mbx", platform |-> "m365",
       summary |-> <<97, 117, 100, 105, 116>>,
       event_ids |-> << [ids |-> << <<77, 97, 105, 108, 82, 100>> >>,
                         source |-> <<85, 65, 76>>,
                         description |-> <<109, 98, 120>>] >>]

Pool == <<R3, R1, R4, R2>>

\* the well-formed collections: at most MaxRecords records of the pool, in the pool's order
Catalogs ==
    LET picks == {s \in SUBSET (1..Len(Pool)) : Cardinality(s) <= MaxRecords}
        RECURSIVE asc(_)
        asc(s) == IF s = {} THEN <<>>
                  ELSE LET m == CHOOSE i \in s : \A j \in s : i <= j
                       IN  <<Pool[m]>> \o asc(s \ {m})
    IN  {asc(s) : s \in picks}

\* what the analyst types: "", "  ", " SAM ", "462", "mail"
Queries == {<<>>, <<32, 32>>, <<32, 83, 65, 77, 32>>, <<52, 54, 50>>, <<109, 97, 105, 108>>}

(***************************************************************************)
(* Derived values (useMemo)                                                *)
(***************************************************************************)
\* the Artifact type's required fields hold text, the platform is one of the four,
\* and no two records share an id
WellFormed(batch) ==
    /\ \A i \in 1..Len(batch) :
          /\ batch[i].id # "" /\ batch[i].slug # ""
          /\ batch[i].name # <<>> /\ batch[i].summary # <<>>
          /\ batch[i].platform \in Platform
    /\ \A i, j \in 1..Len(batch) : i # j => batch[i].id # batch[j].id

\* a loader that rejects a malformed batch whole: what the component does not do
SEED_validated == IF WellFormed(seed) THEN seed ELSE <<>>

\* the cast of the imported seed.json: no check, no conversion at run time
SEED == seed

RECURSIVE flatMapTactics(_)
flatMapTactics(arr) ==
    IF arr = <<>> THEN <<>> ELSE orElse(Head(arr), "tactic_tags", <<>>) \o flatMapTactics(Tail(arr))

toolNames(a) == LET ps == orElse(a, "parsers", <<>>) IN [i \in 1..Len(ps) |-> ps[i].tool_name]

RECURSIVE flatMapTools(_)
flatMapTools(arr) ==
    IF arr = <<>> THEN <<>> ELSE toolNames(Head(arr)) \o flatMapTools(Tail(arr))

allTactics == sort(uniq(flatMapTactics(SEED)))

allTools == sort(uniq(flatMapTools(SEED)))

\* an empty platform selection read as "no restriction", like the other two facets
platformGate_emptyMeansAll(a) == Len(platforms) = 0 \/ arrIncludes(platforms, a.platform)

\* the four conjuncts of the filter callback
platformGate(a) == arrIncludes(platforms, a.platform)

\* a tactic conjunct that looks only at the tactic switched on first
tacticGate_firstOnly(a) ==
    \/ Len(tactics) = 0
    \/ LET ts == orElse(a, "tactic_tags", <<>>) IN \E i \in 1..Len(ts) : ts[i] = tactics[1]

tacticGate(a) ==
    \/ Len(tactics) = 0
    \/ LET ts == orElse(a, "tactic_tags", <<>>) IN \E i \in 1..Len(ts) : arrIncludes(tactics, ts[i])

toolGate(a) ==
    \/ Len(tools) = 0
    \/ LET ps == orElse(a, "parsers", <<>>) IN \E i \in 1..Len(ps) : arrIncludes(tools, ps[i].tool_name)

\* the event-id part of the text gate: source and description are lowercased, the ids are not
eventIdsMatch(a, q) ==
    LET gs == orElse(a, "event_ids", <<>>)
    IN  \E k \in 1..Len(gs) :
            \/ strIncludes(toLowerCase(gs[k].source), q)
            \/ strIncludes(toLowerCase(gs[k].description), q)
            \/ \E j \in 1..Len(gs[k].ids) : strIncludes(gs[k].ids[j], q)

textGate(a) ==
    LET q == toLowerCase(trim(query))
    IN  \/ q = <<>>
        \/ strIncludes(toLowerCase(a.name), q)
        \/ strIncludes(toLowerCase(a.summary), q)
        \/ strIncludes(toLowerCase(orElse(a, "description", <<>>)), q)
        \/ LET ls == orElse(a, "locations", <<>>) IN \E i \in 1..Len(ls) : strIncludes(toLowerCase(ls[i].path), q)
        \/ eventIdsMatch(a, q)

matches(a) == platformGate(a) /\ tacticGate(a) /\ toolGate(a) /\ textGate(a)

\* the matching records, last first
filtered_reversed ==
    LET out == SelectSeq(SEED, matches) IN [i \in 1..Len(out) |-> out[Len(out) + 1 - i]]

filtered == SelectSeq(SEED, matches)

\* the record shown in the detail panel, if any
current == selected

(***************************************************************************)
(* Handlers                                                                *)
(***************************************************************************)
\* an updater that forgets the removal
toggle_appendOnly(prev, x) == Append(prev, x)

\* the updater shared by the three toggles
toggle(prev, x) == IF arrIncludes(prev, x) THEN SelectSeq(prev, LAMBDA y : y # x) ELSE Append(prev, x)

\* a search box that also closes the detail panel
SetQuery_closes(text) ==
    /\ query' = text
    /\ selected' = <<>>
    /\ UNCHANGED <<seed, platforms, tactics, tools>>

\* onChange of the search box
SetQuery(text) ==
    /\ query' = text
    /\ UNCHANGED <<seed, platforms, tactics, tools, selected>>

TogglePlatform(p) ==
    /\ platforms' = toggle(platforms, p)
    /\ UNCHANGED <<seed, query, tactics, tools, selected>>

ToggleTactic(t) ==
    /\ tactics' = toggle(tactics, t)
    /\ UNCHANGED <<seed, query, platforms, tools, selected>>

ToggleTool(t) ==
    /\ tools' = toggle(tools, t)
    /\ UNCHANGED <<seed, query, platforms, tactics, selected>>

\* a reset that forgets the tools
ClearAll_keepsTools ==
    /\ query' = <<>>
    /\ platforms' = PlatformButtons
    /\ tactics' = <<>>
    /\ UNCHANGED <<seed, tools, selected>>

\* the Reset button
ClearAll ==
    /\ query' = <<>>
    /\ platforms' = PlatformButtons
    /\ tactics' = <<>>
    /\ tools' = <<>>
    /\ UNCHANGED <<seed, selected>>

\* a click that opens the first card whichever card was clicked
OpenRecord_first(i) ==
    /\ i \in 1..Len(filtered)
    /\ selected' = <<filtered[1]>>
    /\ UNCHANGED <<seed, query, platforms, tactics, tools>>

\* a click on the i-th card of the result list
OpenRecord(i) ==
    /\ i \in 1..Len(filtered)
    /\ selected' = <<filtered[i]>>
    /\ UNCHANGED <<seed, query, platforms, tactics, tools>>

\* Escape, the backdrop or the Close button
CloseRecord ==
    /\ selected' = <<>>
    /\ UNCHANGED <<seed, query, platforms, tactics, tools>>

Init ==
    /\ seed \in Catalogs
    /\ query = <<>>
    /\ platforms = PlatformButtons
    /\ tactics = <<>>
    /\ tools = <<>>
    /\ selected = <<>>

Next ==
    \/ \E text \in Queries : SetQuery(text)
    \/ \E i \in 1..Len(PlatformButtons) : TogglePlatform(PlatformButtons[i])
    \/ \E i \in 1..Len(allTactics) : ToggleTactic(allTactics[i])
    \/ \E i \in 1..Len(allTools) : ToggleTool(allTools[i])
    \/ ClearAll
    \/ \E i \in 1..Len(filtered) : OpenRecord(i)
    \/ CloseRecord

Spec == Init /\ [][Next]_vars

\* batches nothing has checked: B1 holds a record whose id, name, slug and summary are
\* empty, B2 a record whose platform is "macos" (with a tactic tag "zz"), B3 two
\* records with the id "r1"; B4 is well-formed
Blank == [id |-> "", name |-> <<>>, slug |-> "", platform |-> "windows", summary |-> <<>>]

Mac == [id |-> "m1", name |-> <<77, 97, 99>>, slug |-> "mac", platform |-> "macos",
        tactic_tags |-> << <<122, 122>> >>, summary |-> <<109, 97, 99>>]

R1Again == [id |-> "r1", name |-> <<68, 117, 112>>, slug |-> "dup", platform |-> "gws",
            summary |-> <<100, 117, 112>>]

Batches == {<<R1, Blank>>, <<Mac, R2>>, <<R1, R1Again>>, <<R1, R2>>}

InitLoad ==
    /\ seed \in Batches
    /\ query = <<>>
    /\ platforms = PlatformButtons
    /\ tactics = <<>>
    /\ tools = <<>>
    /\ selected = <<>>

\* the session over a batch that may be malformed
SpecLoad == InitLoad /\ [][Next]_vars

(***************************************************************************)
(* Vocabulary of the properties                                            *)
(***************************************************************************)
SetOf(arr) == {arr[i] : i \in 1..Len(arr)}

NoDup(arr) == \A i, j \in 1..Len(arr) : i # j => arr[i] # arr[j]

DefaultFilters ==
    /\ query = <<>>
    /\ platforms = PlatformButtons
    /\ tactics = <<>>
    /\ tools = <<>>

\* the tactic tags and the tool names that occur in the collection
TagsOf(a) == IF "tactic_tags" \in DOMAIN a THEN SetOf(a.tactic_tags) ELSE {}

ToolsOf(a) == IF "parsers" \in DOMAIN a THEN {a.parsers[i].tool_name : i \in 1..Len(a.parsers)} ELSE {}

\* the ids of the event-id groups of a record
EventIdsOf(a) ==
    IF "event_ids" \in DOMAIN a
    THEN UNION {SetOf(a.event_ids[k].ids) : k \in 1..Len(a.event_ids)}
    ELSE {}

\* the candidate fields of the text gate other than the event ids
TextFieldsOf(a) ==
    {a.name, a.summary}
    \cup (IF "description" \in DOMAIN a THEN {a.description} ELSE {<<>>})
    \cup (IF "locations" \in DOMAIN a THEN {a.locations[i].path : i \in 1..Len(a.locations)} ELSE {})
    \cup (IF "event_ids" \in DOMAIN a
          THEN UNION {{a.event_ids[k].source, a.event_ids[k].description} : k \in 1..Len(a.event_ids)}
          ELSE {})

\* the text gate as section 4.3 states it: the query and every candidate field lowercased
StatedTextGate(a) ==
    LET q == toLowerCase(trim(query))
    IN  \/ q = <<>>
        \/ \E f \in TextFieldsOf(a) \cup EventIdsOf(a) : strIncludes(toLowerCase(f), q)

StatedGates(a) ==
    /\ a.platform \in SetOf(platforms)
    /\ (SetOf(tactics) = {} \/ TagsOf(a) \cap SetOf(tactics) # {})
    /\ (SetOf(tools) = {} \/ ToolsOf(a) \cap SetOf(tools) # {})
    /\ StatedTextGate(a)

(***************************************************************************)
(* C1: a record is in the evaluate output if and only if it passes the     *)
(* platform, tactic, tool and text gates as section 4.3 states them (the   *)
(* text gate case-insensitive on every candidate field).  The code does    *)
(* not lowercase the event ids, so this is violated.                       *)
(***************************************************************************)
C1_InOutputIffAllFourGates ==
    \A i \in 1..Len(SEED) : (SEED[i] \in SetOf(filtered)) <=> StatedGates(SEED[i])

(***************************************************************************)
(* C2: whenever activePlatforms is empty the evaluate output is empty,     *)
(* whatever the query, the active tactics and the active tools.            *)
(***************************************************************************)
C2_NoPlatformShowsNothing == platforms = <<>> => filtered = <<>>

\* no platform selected while the other three gates are in use on a non-empty collection
C2_Witness ==
    /\ platforms = <<>>
    /\ Len(SEED) > 0
    /\ trim(query) # <<>>
    /\ tactics # <<>>
    /\ tools # <<>>

(***************************************************************************)
(* C3: the evaluate output is a subsequence of the collection in load      *)
(* order: each output record is a record of the collection, none appears   *)
(* twice, and the relative order is that of the collection.                *)
(***************************************************************************)
C3_OutputIsSubsequence ==
    /\ \E f \in [1..Len(filtered) -> 1..Len(SEED)] :
          /\ \A k \in 1..Len(filtered) : filtered[k] = SEED[f[k]]
          /\ \A j, k \in 1..Len(filtered) : j < k => f[j] < f[k]
    /\ NoDup(filtered)

\* two records pass while a facet and the text gate restrict the output
C3_Witness ==
    /\ Len(filtered) >= 2
    /\ tactics # <<>>
    /\ Len(platforms) < 4

(***************************************************************************)
(* C4: tacticUniverse is exactly the set of tactic tags of the records and *)
(* toolUniverse exactly the set of their parsers' tool names; each is      *)
(* returned without duplicates in ascending order of code units.           *)
(***************************************************************************)
C4_UniversesExactSortedUnique ==
    /\ SetOf(allTactics) = UNION {TagsOf(SEED[i]) : i \in 1..Len(SEED)}
    /\ SetOf(allTools) = UNION {ToolsOf(SEED[i]) : i \in 1..Len(SEED)}
    /\ \A i \in 1..(Len(allTactics) - 1) : strLess(allTactics[i], allTactics[i + 1])
    /\ \A i \in 1..(Len(allTools) - 1) : strLess(allTools[i], allTools[i + 1])

\* a collection whose tags and tool names repeat and first occur out of order,
\* with a record that has neither field
C4_Witness ==
    /\ Len(flatMapTactics(SEED)) > Len(allTactics)
    /\ uniq(flatMapTactics(SEED)) # allTactics
    /\ Len(flatMapTools(SEED)) > Len(allTools)
    /\ uniq(flatMapTools(SEED)) # allTools

\* the effect of a toggle of x that took the active collection from old to new
Flipped(old, new, x) ==
    /\ (x \in SetOf(new)) <=> (x \notin SetOf(old))
    /\ SetOf(new) \ {x} = SetOf(old) \ {x}
    /\ NoDup(new)
    /\ SetOf(toggle(new, x)) = SetOf(old)

(***************************************************************************)
(* C5: each toggle flips the membership of its value in its active set and *)
(* of no other value, never leaves a value twice in the collection, and    *)
(* the same toggle applied again restores the original set.                *)
(***************************************************************************)
C5_ToggleFlipsMembership ==
    [][ /\ \A p \in Platform : TogglePlatform(p) => Flipped(platforms, platforms', p)
        /\ \A t \in SetOf(allTactics) : ToggleTactic(t) => Flipped(tactics, tactics', t)
        /\ \A t \in SetOf(allTools) : ToggleTool(t) => Flipped(tools, tools', t) ]_vars

\* windows was switched off and on again (it is now last), a tactic and a tool are on
C5_Witness ==
    /\ platforms = <<"linux", "m365", "gws", "windows">>
    /\ Len(tactics) = 2
    /\ Len(tools) = 1

(***************************************************************************)
(* C6 as stated: resetAll yields the default filter state and no open      *)
(* record.  The Reset handler does not touch the open record, so this is   *)
(* violated by a reset while a record is open.                             *)
(***************************************************************************)
C6_ResetClosesRecord ==
    [][ClearAll => (/\ query' = <<>>
                    /\ SetOf(platforms') = Platform
                    /\ tactics' = <<>>
                    /\ tools' = <<>>
                    /\ selected' = <<>>)]_vars

(***************************************************************************)
(* C6 amended: resetAll yields queryText empty, activePlatforms the four   *)
(* platforms in their default order, activeTactics and activeTools empty,  *)
(* and leaves the open record as it was; the state it yields is one a      *)
(* second resetAll does not change.                                        *)
(***************************************************************************)
C6_ResetRestoresFilters ==
    [][ClearAll => (/\ query' = <<>>
                    /\ platforms' = PlatformButtons
                    /\ tactics' = <<>>
                    /\ tools' = <<>>
                    /\ selected' = selected
                    /\ seed' = seed)]_vars

\* the default filters with a record still open
C6_Witness == DefaultFilters /\ selected # <<>>

(***************************************************************************)
(* C8: opening the record of a result card makes current() exactly the     *)
(* record of the collection with that id, replacing any open record; the   *)
(* open record changes only by an open or a close; at most one is open.    *)
(***************************************************************************)
C8_OpenThenCurrent ==
    /\ [](Len(current) <= 1)
    /\ [][ /\ \A i \in 1..Len(filtered) :
                OpenRecord(i) =>
                    /\ Len(current') = 1
                    /\ \E j \in 1..Len(SEED) : SEED[j].id = filtered[i].id
                    /\ \A j \in 1..Len(SEED) : SEED[j].id = filtered[i].id => current'[1] = SEED[j]
           /\ current' # current => (CloseRecord \/ \E i \in 1..Len(filtered) : OpenRecord(i)) ]_vars

\* a record is open that the filters no longer let through
C8_Witness ==
    /\ Len(current) = 1
    /\ current[1] \notin SetOf(filtered)
    /\ Len(filtered) >= 1

(***************************************************************************)
(* C9 as stated: a batch with a record lacking a non-empty id, name, slug  *)
(* or summary, with a platform outside the four, or with a repeated id is  *)
(* rejected whole: none of its records reaches evaluate or the universes.  *)
(***************************************************************************)
C9_MalformedBatchRejected ==
    ~WellFormed(seed) => (filtered = <<>> /\ allTactics = <<>> /\ allTools = <<>>)

(***************************************************************************)
(* C9 amended: the batch is taken as supplied, unchecked: under the        *)
(* default filter state evaluate returns, in batch order, every record of  *)
(* the batch whose platform is one of the four, and the universes hold     *)
(* every tactic tag and tool name of the batch, malformed or not.          *)
(***************************************************************************)
C9_BatchTakenAsSupplied ==
    /\ DefaultFilters => filtered = SelectSeq(seed, LAMBDA a : a.platform \in Platform)
    /\ SetOf(allTactics) = UNION {TagsOf(seed[i]) : i \in 1..Len(seed)}
    /\ SetOf(allTools) = UNION {ToolsOf(seed[i]) : i \in 1..Len(seed)}

\* a malformed batch whose records are shown
C9_Witness == ~WellFormed(seed) /\ DefaultFilters /\ Len(filtered) = 2

(***************************************************************************)
(* C10: the text gate is case-insensitive on event ids too: a record       *)
(* passes it whenever the lowercased trimmed query occurs in the           *)
(* lowercased form of one of its event ids.  The code searches the ids as  *)
(* written, so this is violated by an id with an upper-case letter.        *)
(***************************************************************************)
C10_EventIdsCaseInsensitive ==
    \A i \in 1..Len(SEED) :
        (\E id \in EventIdsOf(SEED[i]) : strIncludes(toLowerCase(id), toLowerCase(trim(query))))
            => textGate(SEED[i])

\* the result list computed from the collection, the query and the three active
\* collections read as sets: nothing here sees an order or a repetition
EvaluateOnSets(S, P, T, U) ==
    SelectSeq(S, LAMBDA a : /\ a.platform \in P
                            /\ (T = {} \/ TagsOf(a) \cap T # {})
                            /\ (U = {} \/ ToolsOf(a) \cap U # {})
                            /\ textGate(a))

(***************************************************************************)
(* C11: the evaluate output is determined by the collection, the query and *)
(* the sets of active platforms, tactics and tools: in every state reached *)
(* by any sequence of intents it equals one function of these, so two      *)
(* sequences ending with the same query and the same sets give the same    *)
(* list, whatever the order or number of the toggles.                      *)
(***************************************************************************)
C11_OutputDependsOnSetsOnly ==
    /\ filtered = EvaluateOnSets(SEED, SetOf(platforms), SetOf(tactics), SetOf(tools))
    /\ NoDup(platforms) /\ NoDup(tactics) /\ NoDup(tools)

\* platforms and tactics were switched on in an order other than the default and
\* the sorted one, and the facets restrict a non-empty output
C11_Witness ==
    /\ platforms = <<"linux", "windows">>
    /\ Len(tactics) = 2
    /\ strLess(tactics[2], tactics[1])
    /\ Len(filtered) = 1
    /\ Len(SEED) = 2

(***************************************************************************)
(* C12: setQueryText and the three toggles leave the open record as it is, *)
(* open and close leave the query and the three active collections as they *)
(* are, and no step changes both; so a record may stay open while the      *)
(* filters exclude it from the output.                                     *)
(***************************************************************************)
C12_FiltersAndOpenRecordIndependent ==
    [][ /\ (\/ \E text \in Queries : SetQuery(text)
            \/ \E p \in Platform : TogglePlatform(p)
            \/ \E t \in SetOf(allTactics) : ToggleTactic(t)
            \/ \E t \in SetOf(allTools) : ToggleTool(t)) => selected' = selected
        /\ (CloseRecord \/ \E i \in 1..Len(filtered) : OpenRecord(i))
              => <<query, platforms, tactics, tools>>' = <<query, platforms, tactics, tools>>
        /\ selected' # selected
              => <<query, platforms, tactics, tools>>' = <<query, platforms, tactics, tools>> ]_vars

\* a record is open while a non-empty query and an empty platform selection show nothing
C12_Witness ==
    /\ Len(selected) = 1
    /\ trim(query) # <<>>
    /\ platforms = <<>>
    /\ filtered = <<>>

====
